---- MODULE Spec2Model ----
(***************************************************************************)
(* Model of quickwit-storage's MemorySizedCache: a byte-budgeted LRU cache *)
(* with a 60 second "do not evict" guard                                   *)
(* (src/quickwit-storage/src/cache/memory_sized_cache.rs).                 *)
(*                                                                         *)
(* Every get / put runs under the facade's mutex, so each is one atomic    *)
(* action.  Time is Instant::now() read in whole seconds; it only moves    *)
(* forward, by the Tick action.                                            *)
(***************************************************************************)
EXTENDS Integers, Sequences, FiniteSets, TLC

----------------------------------------------------------------------------
(* Bounds of the model *)

\* the clock stops advancing here (seconds since the cache was built)
MaxNow == 119

\* the cache keys the callers use: those of tests::test_cache_edge_condition
Keys == {"2", "3", "5"}

\* number of get / put calls made on the caches that share a sink
MaxCalls == 4

\* number of register calls made on a MetastoreUriResolverBuilder
MaxRegistrations == 4

\* length of the longest value the environment variable is set to
MaxLen == 2

\* number of calls the threads that share a cache start
MaxStarted == 4

----------------------------------------------------------------------------
(* Program constants *)

\* const DO_NO_EVICT_DURATION_LIMIT: Duration = Duration::from_secs(60)
DO_NO_EVICT_DURATION_LIMIT == 60

\* capacity of tests::test_cache_edge_condition
TestCapacity == 5

\* The byte strings of the tests ("de", "abc", "fghij", "klmnop") and the
\* empty slice.
Values ==
    { <<>>,
      <<100, 101>>,
      <<97, 98, 99>>,
      <<102, 103, 104, 105, 106>>,
      <<107, 108, 109, 110, 111, 112>> }

\* enum Capacity { Unlimited, InBytes(usize) }
Unlimited == [kind |-> "Unlimited", bytes |-> 0]

InBytes(n) == [kind |-> "InBytes", bytes |-> n]

Capacities == {Unlimited, InBytes(0), InBytes(TestCapacity)}

\* how far the clock moves between two calls: just below the guard's limit,
\* or exactly the limit
TickSteps == {DO_NO_EVICT_DURATION_LIMIT - 1, DO_NO_EVICT_DURATION_LIMIT}

\* Option<T>
None == <<>>

Some(x) == <<x>>

\* Result<T, E>
Ok(x) == [ok |-> TRUE, value |-> x]

Err(e) == [ok |-> FALSE, error |-> e]

----------------------------------------------------------------------------
(* lru::LruCache<K, (Instant, OwnedBytes)>, unbounded.  A sequence of      *)
(* entries [key, instant, bytes]; index 1 is the least recently used,      *)
(* the last index the most recently used.                                  *)

Entry(key, instant, bytes) == [key |-> key, instant |-> instant, bytes |-> bytes]

RECURSIVE IndexFrom(_, _, _)
IndexFrom(l, key, i) ==
    IF i > Len(l) THEN 0
    ELSE IF l[i].key = key THEN i
    ELSE IndexFrom(l, key, i + 1)

\* position of key in the list, 0 when absent
IndexOf(l, key) == IndexFrom(l, key, 1)

RemoveAt(l, i) == SubSeq(l, 1, i - 1) \o SubSeq(l, i + 1, Len(l))

\* LruCache::contains
lru_contains(l, key) == IndexOf(l, key) # 0

\* LruCache::peek(key): the entry, no promotion
lru_peek(l, key) == IF lru_contains(l, key) THEN Some(l[IndexOf(l, key)]) ELSE None

\* LruCache::pop(key): remove by key
lru_pop(l, key) == IF lru_contains(l, key) THEN RemoveAt(l, IndexOf(l, key)) ELSE l

\* LruCache::peek_lru: the least recently used entry, no mutation
lru_peek_lru(l) == IF Len(l) = 0 THEN None ELSE Some(l[1])

\* pop_lru that takes the entry from the wrong end of the list
lru_pop_mru(l) == IF Len(l) = 0 THEN l ELSE SubSeq(l, 1, Len(l) - 1)

\* LruCache::pop_lru: remove the least recently used entry
lru_pop_lru(l) == IF Len(l) = 0 THEN l ELSE Tail(l)

\* LruCache::put: insert as most recently used (replacing an entry of the key)
lru_put(l, key, instant, bytes) == Append(lru_pop(l, key), Entry(key, instant, bytes))

\* get_mut that does not promote the entry (`peek_mut` for `get_mut`)
lru_peek_mut(l, key, instant) ==
    IF lru_contains(l, key)
    THEN [l EXCEPT ![IndexOf(l, key)].instant = instant]
    ELSE l

\* LruCache::get_mut followed by `*instant = Instant::now()`: promote the
\* entry to most recently used and refresh its timestamp
lru_get_mut(l, key, instant) ==
    IF lru_contains(l, key)
    THEN Append(lru_pop(l, key), Entry(key, instant, l[IndexOf(l, key)].bytes))
    ELSE l

----------------------------------------------------------------------------
(* NeedMutMemorySizedCache *)

\* exceeds_capacity with the bound off by one
exceeds_capacity_off_by_one(cap, n) ==
    IF cap.kind = "Unlimited" THEN FALSE ELSE n > cap.bytes + 1

\* exceeds_capacity with `>=` for `>`
exceeds_capacity_ge(cap, n) ==
    IF cap.kind = "Unlimited" THEN FALSE ELSE n >= cap.bytes

\* Capacity::exceeds_capacity
exceeds_capacity(cap, n) ==
    IF cap.kind = "Unlimited" THEN FALSE ELSE n > cap.bytes

\* the counters of a CacheMetrics sink, as they are when the process starts
CacheMetrics ==
    [in_cache_count |-> 0, in_cache_num_bytes |-> 0,
     hits_num_items |-> 0, hits_num_bytes |-> 0, misses_num_items |-> 0]

\* the guarded state: lru_cache, num_items, num_bytes, capacity and the
\* sink that `cache_counters` refers to
CacheState(l, items, nbytes, cap, counters) ==
    [lru_cache |-> l, num_items |-> items, num_bytes |-> nbytes, capacity |-> cap,
     cache_counters |-> counters]

\* NeedMutMemorySizedCache::with_capacity
with_capacity(cap, counters) == CacheState(<<>>, 0, 0, cap, counters)

\* NeedMutMemorySizedCache::record_item
record_item(c, n) ==
    [c EXCEPT !.num_items = @ + 1,
              !.num_bytes = @ + n,
              !.cache_counters.in_cache_count = @ + 1,
              !.cache_counters.in_cache_num_bytes = @ + n]

\* drop_item that forgets the bytes
drop_item_keeps_bytes(c, n) ==
    [c EXCEPT !.num_items = @ - 1,
              !.cache_counters.in_cache_count = @ - 1]

\* NeedMutMemorySizedCache::drop_item
drop_item(c, n) ==
    [c EXCEPT !.num_items = @ - 1,
              !.num_bytes = @ - n,
              !.cache_counters.in_cache_count = @ - 1,
              !.cache_counters.in_cache_num_bytes = @ - n]

\* drop that leaves the bytes of the cache in the sink
drop_keeps_bytes(c) ==
    [c.cache_counters EXCEPT !.in_cache_count = @ - c.num_items]

\* Drop for NeedMutMemorySizedCache: the sink after the cache is dropped
drop(c) ==
    [c.cache_counters EXCEPT !.in_cache_count = @ - c.num_items,
                             !.in_cache_num_bytes = @ - c.num_bytes]

\* get that takes the entry out of the store (`pop` for `get_mut`)
get_pops(c, key, instant) ==
    IF lru_contains(c.lru_cache, key)
    THEN [cache |-> [c EXCEPT !.lru_cache = lru_pop(@, key)],
          outcome |-> "hit",
          ret |-> Some(c.lru_cache[IndexOf(c.lru_cache, key)].bytes)]
    ELSE [cache |-> c, outcome |-> "miss", ret |-> None]

\* get that counts one byte for a hit (`inc` for `inc_by`)
get_counts_one_byte(c, key, instant) ==
    IF lru_contains(c.lru_cache, key)
    THEN [cache |-> [c EXCEPT !.lru_cache = lru_get_mut(@, key, instant),
                              !.cache_counters.hits_num_items = @ + 1,
                              !.cache_counters.hits_num_bytes = @ + 1],
          outcome |-> "hit",
          ret |-> Some(c.lru_cache[IndexOf(c.lru_cache, key)].bytes)]
    ELSE [cache |-> [c EXCEPT !.cache_counters.misses_num_items = @ + 1],
          outcome |-> "miss", ret |-> None]

\* NeedMutMemorySizedCache::get: the state after the call and what it returns
get(c, key, instant) ==
    IF lru_contains(c.lru_cache, key)
    THEN [cache |-> [c EXCEPT
                        !.lru_cache = lru_get_mut(@, key, instant),
                        !.cache_counters.hits_num_items = @ + 1,
                        !.cache_counters.hits_num_bytes =
                            @ + Len(c.lru_cache[IndexOf(c.lru_cache, key)].bytes)],
          outcome |-> "hit",
          ret |-> Some(c.lru_cache[IndexOf(c.lru_cache, key)].bytes)]
    ELSE [cache |-> [c EXCEPT !.cache_counters.misses_num_items = @ + 1],
          outcome |-> "miss", ret |-> None]

\* pop_previous that does not account the entry out
pop_previous_no_drop(c, key) ==
    [c EXCEPT !.lru_cache = lru_pop(@, key)]

\* pop_previous that pops the least recently used entry (`pop_lru` for `pop`)
pop_previous_pops_lru(c, key) ==
    IF lru_contains(c.lru_cache, key)
    THEN drop_item([c EXCEPT !.lru_cache = lru_pop_lru(@)],
                   Len(c.lru_cache[1].bytes))
    ELSE c

\* pop_previous that leaves the entry in place (no `pop` before the loop)
pop_previous_skipped(c, key) == c

\* `if let Some((_, previous_data)) = self.lru_cache.pop(&key)` of put
pop_previous(c, key) ==
    IF lru_contains(c.lru_cache, key)
    THEN drop_item([c EXCEPT !.lru_cache = lru_pop(@, key)],
                   Len(c.lru_cache[IndexOf(c.lru_cache, key)].bytes))
    ELSE c

\* the eviction loop without the `DO_NO_EVICT_DURATION_LIMIT` check
RECURSIVE evict_loop_no_guard(_, _, _)
evict_loop_no_guard(c, len, instant) ==
    IF ~exceeds_capacity(c.capacity, c.num_bytes + len)
    THEN [cache |-> c, outcome |-> "fits"]
    ELSE IF lru_peek_lru(c.lru_cache) # None
    THEN evict_loop_no_guard(drop_item([c EXCEPT !.lru_cache = lru_pop_lru(@)],
                                       Len(c.lru_cache[1].bytes)),
                             len, instant)
    ELSE [cache |-> c, outcome |-> "logical_error"]

\* the `while` loop of put: evict least recently used entries until the new
\* value fits; stops at an entry accessed less than the limit ago
RECURSIVE evict_loop(_, _, _)
evict_loop(c, len, instant) ==
    IF ~exceeds_capacity(c.capacity, c.num_bytes + len)
    THEN [cache |-> c, outcome |-> "fits"]
    ELSE IF /\ lru_peek_lru(c.lru_cache) # None
            /\ instant - c.lru_cache[1].instant < DO_NO_EVICT_DURATION_LIMIT
    THEN [cache |-> c, outcome |-> "guard"]
    ELSE IF lru_peek_lru(c.lru_cache) # None
    THEN evict_loop(drop_item([c EXCEPT !.lru_cache = lru_pop_lru(@)],
                              Len(c.lru_cache[1].bytes)),
                    len, instant)
    ELSE [cache |-> c, outcome |-> "logical_error"]

\* put without the check of the value's size against the capacity
put_skips_size_check(c, key, bytes, instant) ==
    LET evicted == evict_loop(pop_previous(c, key), Len(bytes), instant)
    IN  IF evicted.outcome # "fits"
        THEN evicted
        ELSE [cache |-> [record_item(evicted.cache, Len(bytes)) EXCEPT
                            !.lru_cache = lru_put(@, key, instant, bytes)],
              outcome |-> "stored"]

\* put that pops the previous entry before it checks the size of the value
put_pops_before_check(c, key, bytes, instant) ==
    IF exceeds_capacity(c.capacity, Len(bytes))
    THEN [cache |-> pop_previous(c, key), outcome |-> "oversize"]
    ELSE LET evicted == evict_loop(pop_previous(c, key), Len(bytes), instant)
         IN  IF evicted.outcome # "fits"
             THEN evicted
             ELSE [cache |-> [record_item(evicted.cache, Len(bytes)) EXCEPT
                                 !.lru_cache = lru_put(@, key, instant, bytes)],
                   outcome |-> "stored"]

\* NeedMutMemorySizedCache::put: the state after the call and the return
\* path taken ("oversize", "guard", "logical_error" or "stored")
put(c, key, bytes, instant) ==
    IF exceeds_capacity(c.capacity, Len(bytes))
    THEN [cache |-> c, outcome |-> "oversize"]
    ELSE LET evicted == evict_loop(pop_previous(c, key), Len(bytes), instant)
         IN  IF evicted.outcome # "fits"
             THEN evicted
             ELSE [cache |-> [record_item(evicted.cache, Len(bytes)) EXCEPT
                                 !.lru_cache = lru_put(@, key, instant, bytes)],
                   outcome |-> "stored"]

----------------------------------------------------------------------------
(* State *)

VARIABLES
    lru_cache,   \* NeedMutMemorySizedCache.lru_cache
    num_items,   \* NeedMutMemorySizedCache.num_items
    num_bytes,   \* NeedMutMemorySizedCache.num_bytes
    capacity,    \* NeedMutMemorySizedCache.capacity
    now,         \* the reading of Instant::now()
    last_call,   \* the latest call on the cache: its arguments, the return
                 \* path it took, what it returned, whether it repeats the
                 \* put made just before it, whether it took out a previous
                 \* entry of its key and how many entries it evicted
    caches,      \* the caches that share one sink: the guarded state of each
                 \* and whether it is still alive
    metrics,     \* the CacheMetrics sink the caches share
    retained,    \* per cache and key: the value of the latest put that was
                 \* stored
    calls,       \* number of get / put calls made on the sharing caches
    per_protocol_resolver,  \* MetastoreUriResolverBuilder / MetastoreUriResolver
    built,       \* whether MetastoreUriResolverBuilder::build has run
    registrations,  \* the register calls made on the builder, in order
    resolved,    \* the latest MetastoreUriResolver::resolve: its uri, what the
                 \* factory did and the result
    env,         \* the process environment: the value of the variable
    returned,    \* the latest get_from_env: the value it saw, the default
                 \* it was given and what it returned
    inner_lock,  \* MemorySizedCache.inner: the thread that holds the mutex
    threads,     \* per thread: where it is in its call of get or put, the
                 \* arguments and locals of the call
    lin,         \* the cache as it is when the calls made so far are run
                 \* one after the other, in the order they read the clock
    started      \* number of calls the threads have started

cache_vars == <<lru_cache, num_items, num_bytes, capacity>>

sink_vars == <<caches, metrics, retained, calls>>

resolver_vars == <<per_protocol_resolver, built, registrations, resolved>>

env_vars == <<env, returned>>

thread_vars == <<inner_lock, threads, lin, started>>

vars ==
    <<cache_vars, now, last_call, sink_vars, resolver_vars, env_vars, thread_vars>>

\* the guarded state of the cache that Spec follows; the cache only writes
\* to its sink, and Spec does not keep what it writes
cache == CacheState(lru_cache, num_items, num_bytes, capacity, CacheMetrics)

NoCall ==
    [op |-> "none", key |-> "", bytes |-> <<>>, outcome |-> "none", ret |-> None,
     again |-> FALSE, replaced |-> FALSE, evicted |-> 0]

\* the call before this one was a put of the same key and bytes, and it was
\* stored
StoredJust(key, bytes) ==
    /\ last_call.op = "put"
    /\ last_call.outcome = "stored"
    /\ last_call.key = key
    /\ last_call.bytes = bytes

\* the put that led from c to r took the previous entry of key out of the
\* store (the `pop` at the start of put found one)
Replaced(c, key, r) == r.outcome # "oversize" /\ lru_contains(c.lru_cache, key)

\* number of entries the eviction loop of the put that led from c to r popped
Evicted(c, key, r) ==
    Len(lru_pop(c.lru_cache, key)) - Len(lru_pop(r.cache.lru_cache, key))

\* no metastore resolver is being built
ResolverOff ==
    /\ per_protocol_resolver = <<>>
    /\ built = FALSE
    /\ registrations = <<>>
    /\ resolved = None

\* the environment is not read
EnvOff ==
    /\ env = None
    /\ returned = None

\* no threads share a cache
ThreadsOff ==
    /\ inner_lock = None
    /\ threads = <<>>
    /\ lin = None
    /\ started = 0

\* no caches with a shared sink
SinkOff ==
    /\ caches = <<>>
    /\ metrics = CacheMetrics
    /\ retained = <<>>
    /\ calls = 0

\* MemorySizedCache::with_capacity_in_bytes / with_infinite_capacity
Init ==
    /\ capacity \in Capacities
    /\ lru_cache = with_capacity(capacity, CacheMetrics).lru_cache
    /\ num_items = with_capacity(capacity, CacheMetrics).num_items
    /\ num_bytes = with_capacity(capacity, CacheMetrics).num_bytes
    /\ now = 0
    /\ last_call = NoCall
    /\ SinkOff
    /\ ResolverOff
    /\ EnvOff
    /\ ThreadsOff

\* MemorySizedCache::get
Get(key) ==
    \E r \in {get(cache, key, now)} :
        /\ lru_cache' = r.cache.lru_cache
        /\ num_items' = r.cache.num_items
        /\ num_bytes' = r.cache.num_bytes
        /\ last_call' = [op |-> "get", key |-> key, bytes |-> <<>>,
                         outcome |-> r.outcome, ret |-> r.ret, again |-> FALSE,
                         replaced |-> FALSE, evicted |-> 0]
        /\ UNCHANGED <<capacity, now, sink_vars, resolver_vars, env_vars, thread_vars>>

\* MemorySizedCache::put
Put(key, bytes) ==
    \E r \in {put(cache, key, bytes, now)} :
        /\ lru_cache' = r.cache.lru_cache
        /\ num_items' = r.cache.num_items
        /\ num_bytes' = r.cache.num_bytes
        /\ last_call' = [op |-> "put", key |-> key, bytes |-> bytes,
                         outcome |-> r.outcome, ret |-> None,
                         again |-> StoredJust(key, bytes),
                         replaced |-> Replaced(cache, key, r),
                         evicted |-> Evicted(cache, key, r)]
        /\ UNCHANGED <<capacity, now, sink_vars, resolver_vars, env_vars, thread_vars>>

\* time passes between two calls
Tick(d) ==
    /\ now + d <= MaxNow
    /\ now' = now + d
    /\ UNCHANGED <<cache_vars, last_call, sink_vars, resolver_vars, env_vars, thread_vars>>

Next ==
    \/ \E key \in Keys : Get(key)
    \/ \E key \in Keys, bytes \in Values : Put(key, bytes)
    \/ \E d \in TickSteps : Tick(d)

Spec == Init /\ [][Next]_vars

----------------------------------------------------------------------------
(* Caches that share one CacheMetrics sink *)

\* the caches: one from each constructor
CacheIds == {1, 2}

\* cache 1 is built by with_capacity_in_bytes, cache 2 by
\* with_infinite_capacity
SinkCapacity(i) == IF i = 1 THEN InBytes(TestCapacity) ELSE Unlimited

\* keys and values ("de", "fghij") of the calls on the sharing caches
SinkKeys == {"2", "3"}

SinkValues == {<<100, 101>>, <<102, 103, 104, 105, 106>>}

\* the guarded state of cache i, its `cache_counters` referring to the sink
SinkCache(i) ==
    CacheState(caches[i].lru_cache, caches[i].num_items, caches[i].num_bytes,
               caches[i].capacity, metrics)

\* the caches after cache i has become c
SinkStore(i, c) ==
    [caches EXCEPT ![i] = [lru_cache |-> c.lru_cache, num_items |-> c.num_items,
                           num_bytes |-> c.num_bytes, capacity |-> c.capacity,
                           live |-> TRUE]]

\* the record of a call on cache i
SinkCall(i, op, key, bytes, outcome, ret) ==
    [op |-> op, cache |-> i, key |-> key, bytes |-> bytes, outcome |-> outcome,
     ret |-> ret]

\* the cache that Spec follows is not in use
CacheOff ==
    /\ lru_cache = <<>>
    /\ num_items = 0
    /\ num_bytes = 0
    /\ capacity = Unlimited

\* both caches built on the same sink (constructors of MemorySizedCache)
SinkInit ==
    /\ caches = [i \in CacheIds |->
                    [lru_cache |-> with_capacity(SinkCapacity(i), CacheMetrics).lru_cache,
                     num_items |-> with_capacity(SinkCapacity(i), CacheMetrics).num_items,
                     num_bytes |-> with_capacity(SinkCapacity(i), CacheMetrics).num_bytes,
                     capacity |-> with_capacity(SinkCapacity(i), CacheMetrics).capacity,
                     live |-> TRUE]]
    /\ metrics = with_capacity(SinkCapacity(1), CacheMetrics).cache_counters
    /\ retained = [i \in CacheIds |-> [key \in SinkKeys |-> None]]
    /\ calls = 0
    /\ now = 0
    /\ last_call = NoCall
    /\ CacheOff
    /\ ResolverOff
    /\ EnvOff
    /\ ThreadsOff

\* MemorySizedCache::get on cache i
SinkGet(i, key) ==
    /\ caches[i].live
    /\ calls < MaxCalls
    /\ \E r \in {get(SinkCache(i), key, now)} :
          /\ caches' = SinkStore(i, r.cache)
          /\ metrics' = r.cache.cache_counters
          /\ last_call' = SinkCall(i, "get", key, <<>>, r.outcome, r.ret)
    /\ calls' = calls + 1
    /\ UNCHANGED <<retained, now, cache_vars, resolver_vars, env_vars, thread_vars>>

\* MemorySizedCache::put on cache i
SinkPut(i, key, bytes) ==
    /\ caches[i].live
    /\ calls < MaxCalls
    /\ \E r \in {put(SinkCache(i), key, bytes, now)} :
          /\ caches' = SinkStore(i, r.cache)
          /\ metrics' = r.cache.cache_counters
          /\ last_call' = SinkCall(i, "put", key, bytes, r.outcome, None)
          /\ retained' = IF r.outcome = "stored"
                         THEN [retained EXCEPT ![i][key] = Some(bytes)]
                         ELSE retained
    /\ calls' = calls + 1
    /\ UNCHANGED <<now, cache_vars, resolver_vars, env_vars, thread_vars>>

\* cache i goes out of scope: Drop for NeedMutMemorySizedCache
SinkDrop(i) ==
    /\ caches[i].live
    /\ metrics' = drop(SinkCache(i))
    /\ caches' = [caches EXCEPT ![i].live = FALSE]
    /\ last_call' = SinkCall(i, "drop", "", <<>>, "none", None)
    /\ UNCHANGED <<retained, calls, now, cache_vars, resolver_vars, env_vars, thread_vars>>

\* the limit of the eviction guard passes between two calls
SinkTick ==
    /\ now + DO_NO_EVICT_DURATION_LIMIT <= MaxNow
    /\ now' = now + DO_NO_EVICT_DURATION_LIMIT
    /\ UNCHANGED <<sink_vars, last_call, cache_vars, resolver_vars, env_vars, thread_vars>>

SinkNext ==
    \/ \E i \in CacheIds, key \in SinkKeys : SinkGet(i, key)
    \/ \E i \in CacheIds, key \in SinkKeys, bytes \in SinkValues : SinkPut(i, key, bytes)
    \/ \E i \in CacheIds : SinkDrop(i)
    \/ SinkTick

SpecSink == SinkInit /\ [][SinkNext]_vars

----------------------------------------------------------------------------
(* quickwit-metastore: MetastoreUriResolver *)

\* the protocols quickwit_metastore_uri_resolver registers
Protocol == {"ram", "file", "s3", "postgresql"}

\* the uris handed to resolve: one per protocol
Uris == {[protocol |-> protocol, path |-> "//"] : protocol \in Protocol}

FileBackedMetastoreFactory == [kind |-> "FileBackedMetastoreFactory", message |-> ""]

\* the stub registered for a backend that was compiled out
UnsuportedMetastore(message) == [kind |-> "UnsuportedMetastore", message |-> message]

\* the factories of a build without the 'postgres' feature
Factories ==
    { FileBackedMetastoreFactory,
      UnsuportedMetastore("postgres unsupported, quickwit was compiled without the 'postgres' feature flag") }

\* what the backend of a factory does with the uri: it opens the metastore
\* or fails
FactoryOutcomes == {"opened", "failed"}

\* MetastoreResolverError::ProtocolUnsupported
ProtocolUnsupported(message) == [kind |-> "ProtocolUnsupported", message |-> message]

\* MetastoreFactory::resolve of a factory
MetastoreFactory_resolve(factory, uri, outcome) ==
    IF factory.kind = "UnsuportedMetastore"
    THEN Err(ProtocolUnsupported(factory.message))
    ELSE IF outcome = "opened"
    THEN Ok([metastore |-> factory.kind, uri |-> uri])
    ELSE Err([kind |-> "FactoryError", message |-> factory.kind])

\* register that keeps the factory a protocol already has
register_keeps_first(resolvers, protocol, factory) ==
    [p \in DOMAIN resolvers \cup {protocol} |->
        IF p \in DOMAIN resolvers THEN resolvers[p] ELSE factory]

\* MetastoreUriResolverBuilder::register: HashMap::insert
register(resolvers, protocol, factory) ==
    [p \in DOMAIN resolvers \cup {protocol} |->
        IF p = protocol THEN factory ELSE resolvers[p]]

\* MetastoreUriResolver::resolve
resolve(resolvers, uri, outcome) ==
    IF uri.protocol \notin DOMAIN resolvers
    THEN Err(ProtocolUnsupported(uri.protocol))
    ELSE MetastoreFactory_resolve(resolvers[uri.protocol], uri, outcome)

\* neither the clock nor a cache is in use
ClockOff ==
    /\ now = 0
    /\ last_call = NoCall

\* MetastoreUriResolver::builder
ResolverInit ==
    /\ per_protocol_resolver = <<>>
    /\ built = FALSE
    /\ registrations = <<>>
    /\ resolved = None
    /\ ClockOff
    /\ CacheOff
    /\ SinkOff
    /\ EnvOff
    /\ ThreadsOff

\* MetastoreUriResolverBuilder::register
Register(protocol, factory) ==
    /\ ~built
    /\ Len(registrations) < MaxRegistrations
    /\ per_protocol_resolver' = register(per_protocol_resolver, protocol, factory)
    /\ registrations' = Append(registrations, [protocol |-> protocol, factory |-> factory])
    /\ UNCHANGED <<built, resolved, cache_vars, now, last_call, sink_vars, env_vars, thread_vars>>

\* MetastoreUriResolverBuilder::build
Build ==
    /\ ~built
    /\ built' = TRUE
    /\ UNCHANGED <<per_protocol_resolver, registrations, resolved,
                   cache_vars, now, last_call, sink_vars, env_vars, thread_vars>>

\* MetastoreUriResolver::resolve
Resolve(uri, outcome) ==
    /\ built
    /\ resolved' = Some([uri |-> uri, outcome |-> outcome,
                         result |-> resolve(per_protocol_resolver, uri, outcome)])
    /\ UNCHANGED <<per_protocol_resolver, built, registrations,
                   cache_vars, now, last_call, sink_vars, env_vars, thread_vars>>

ResolverNext ==
    \/ \E protocol \in Protocol, factory \in Factories : Register(protocol, factory)
    \/ Build
    \/ \E uri \in Uris, outcome \in FactoryOutcomes : Resolve(uri, outcome)

SpecResolver == ResolverInit /\ [][ResolverNext]_vars

----------------------------------------------------------------------------
(* quickwit-common: get_from_env *)

\* the characters of the values: those of "15" and "1invalidnumber", and
\* the sign
Chars == {"1", "5", "i", "-"}

\* the strings of at most n characters
Strings(n) == UNION {[1..k -> Chars] : k \in 0..n}

\* a value of the variable that is valid unicode
Unicode(str) == [unicode |-> TRUE, str |-> str]

\* a value of the variable that is not valid unicode
NotUnicode == [unicode |-> FALSE, str |-> <<>>]

\* the default of tests::test_get_from_env
Defaults == {10}

\* i32::MAX and i32::MIN
I32_MAX == 2147483647

I32_MIN == -I32_MAX - 1

\* the decimal digits; the digit at position d + 1 is d
Digits == <<"0", "1", "2", "3", "4", "5", "6", "7", "8", "9">>

\* char::to_digit(10)
to_digit(ch) ==
    IF \E d \in 1..Len(Digits) : Digits[d] = ch
    THEN Some((CHOOSE d \in 1..Len(Digits) : Digits[d] = ch) - 1)
    ELSE None

RECURSIVE parse_digits(_, _, _)
\* the digit loop of from_str: checked multiply and add, digit by digit
parse_digits(str, acc, sign) ==
    IF str = <<>>
    THEN Ok(acc)
    ELSE IF to_digit(Head(str)) = None
    THEN Err("InvalidDigit")
    ELSE LET value == acc * 10 + sign * to_digit(Head(str))[1]
         IN  IF value > I32_MAX
             THEN Err("PosOverflow")
             ELSE IF value < I32_MIN
             THEN Err("NegOverflow")
             ELSE parse_digits(Tail(str), value, sign)

\* from_str that skips what is not a digit or a sign
from_str_skips(str) ==
    LET kept == SelectSeq(str, LAMBDA ch : ch = "-" \/ to_digit(ch) # None)
    IN  IF kept = <<>>
        THEN Err("Empty")
        ELSE IF Head(kept) = "-"
        THEN IF Len(kept) = 1 THEN Err("InvalidDigit")
             ELSE parse_digits(Tail(kept), 0, -1)
        ELSE parse_digits(kept, 0, 1)

\* <i32 as FromStr>::from_str
from_str(str) ==
    IF str = <<>>
    THEN Err("Empty")
    ELSE IF Head(str) \in {"+", "-"}
    THEN IF Len(str) = 1 THEN Err("InvalidDigit")
         ELSE parse_digits(Tail(str), 0, IF Head(str) = "-" THEN -1 ELSE 1)
    ELSE parse_digits(str, 0, 1)

\* std::env::var
env_var(e) ==
    IF e = None
    THEN Err("NotPresent")
    ELSE IF ~e[1].unicode
    THEN Err("NotUnicode")
    ELSE Ok(e[1].str)

\* get_from_env
get_from_env(e, default_value) ==
    IF env_var(e).ok
    THEN IF from_str(env_var(e).value).ok
         THEN from_str(env_var(e).value).value
         ELSE default_value
    ELSE default_value

\* the variable is not set when the process starts
EnvInit ==
    /\ env = None
    /\ returned = None
    /\ ClockOff
    /\ CacheOff
    /\ SinkOff
    /\ ResolverOff
    /\ ThreadsOff

\* std::env::set_var with a string
SetVar(str) ==
    /\ env' = Some(Unicode(str))
    /\ UNCHANGED <<returned, cache_vars, now, last_call, sink_vars, resolver_vars, thread_vars>>

\* std::env::set_var with an OsStr that is not valid unicode
SetVarOs ==
    /\ env' = Some(NotUnicode)
    /\ UNCHANGED <<returned, cache_vars, now, last_call, sink_vars, resolver_vars, thread_vars>>

\* a call of get_from_env
GetFromEnv(default_value) ==
    /\ returned' = Some([seen |-> env, default_value |-> default_value,
                         value |-> get_from_env(env, default_value)])
    /\ UNCHANGED <<env, cache_vars, now, last_call, sink_vars, resolver_vars, thread_vars>>

EnvNext ==
    \/ \E str \in Strings(MaxLen) : SetVar(str)
    \/ SetVarOs
    \/ \E default_value \in Defaults : GetFromEnv(default_value)

SpecEnv == EnvInit /\ [][EnvNext]_vars

----------------------------------------------------------------------------
(* MemorySizedCache shared by threads: `self.inner.lock().unwrap()` *)

\* the threads that call get and put on the one cache
ThreadIds == {1, 2}

\* keys and values ("de", "abc", "klmnop") of the calls of the threads
ThreadKeys == {"2", "3"}

ThreadValues == {<<100, 101>>, <<97, 98, 99>>, <<107, 108, 109, 110, 111, 112>>}

\* a thread that is not in a call
Idle ==
    [pc |-> "idle", op |-> "none", key |-> "", bytes |-> <<>>, instant |-> 0,
     outcome |-> "none", ret |-> None, lin_ret |-> None, iters |-> 0, resident |-> 0]

\* the positions of a thread between `lock()` and the drop of the guard
Critical == {"get_mut", "get_touch", "put_now", "put_pop", "put_loop", "put_insert", "unlock"}

\* Mutex::lock that does not wait for the holder
try_lock_regardless(holder, t) == TRUE

\* Mutex::lock returns for thread t only when no thread holds the mutex
try_lock(holder, t) == holder = None

\* drop of the MutexGuard that forgets to release after the guard return
release_unless_guard(holder, t, outcome) ==
    IF outcome = "guard" THEN holder ELSE None

\* drop of the MutexGuard at the end of the facade's get / put
release(holder, t, outcome) == None

\* LruCache::get_mut: the promotion of the entry to most recently used
lru_promote(l, key) ==
    IF lru_contains(l, key)
    THEN Append(lru_pop(l, key), l[IndexOf(l, key)])
    ELSE l

\* one pass through the `while` of put: "fits" when the condition is false,
\* "guard" and "logical_error" for the two returns, "popped" after pop_lru
evict_step(c, len, instant) ==
    IF ~exceeds_capacity(c.capacity, c.num_bytes + len)
    THEN [cache |-> c, outcome |-> "fits"]
    ELSE IF /\ lru_peek_lru(c.lru_cache) # None
            /\ instant - c.lru_cache[1].instant < DO_NO_EVICT_DURATION_LIMIT
    THEN [cache |-> c, outcome |-> "guard"]
    ELSE IF lru_peek_lru(c.lru_cache) # None
    THEN [cache |-> drop_item([c EXCEPT !.lru_cache = lru_pop_lru(@)],
                              Len(c.lru_cache[1].bytes)),
          outcome |-> "popped"]
    ELSE [cache |-> c, outcome |-> "logical_error"]

\* the guarded state of the sequential run
LinCache == CacheState(lin.lru_cache, lin.num_items, lin.num_bytes, capacity, CacheMetrics)

\* the sequential run after it has come to c
LinOf(c) == [lru_cache |-> c.lru_cache, num_items |-> c.num_items, num_bytes |-> c.num_bytes]

\* the guarded state becomes c
Guarded(c) ==
    /\ lru_cache' = c.lru_cache
    /\ num_items' = c.num_items
    /\ num_bytes' = c.num_bytes
    /\ UNCHANGED capacity

\* what no step of a thread changes
ThreadFrame == UNCHANGED <<last_call, sink_vars, resolver_vars, env_vars>>

\* MemorySizedCache::with_capacity_in_bytes, shared by the threads
ThreadsInit ==
    /\ capacity = InBytes(TestCapacity)
    /\ lru_cache = with_capacity(capacity, CacheMetrics).lru_cache
    /\ num_items = with_capacity(capacity, CacheMetrics).num_items
    /\ num_bytes = with_capacity(capacity, CacheMetrics).num_bytes
    /\ inner_lock = None
    /\ threads = [t \in ThreadIds |-> Idle]
    /\ lin = LinOf(with_capacity(capacity, CacheMetrics))
    /\ started = 0
    /\ ClockOff
    /\ SinkOff
    /\ ResolverOff
    /\ EnvOff

\* thread t calls MemorySizedCache::get
CallGet(t, key) ==
    /\ threads[t].pc = "idle"
    /\ started < MaxStarted
    /\ threads' = [threads EXCEPT ![t] = [Idle EXCEPT !.pc = "lock", !.op = "get",
                                                      !.key = key]]
    /\ started' = started + 1
    /\ UNCHANGED <<cache_vars, now, inner_lock, lin>>
    /\ ThreadFrame

\* thread t calls MemorySizedCache::put
CallPut(t, key, bytes) ==
    /\ threads[t].pc = "idle"
    /\ started < MaxStarted
    /\ threads' = [threads EXCEPT ![t] = [Idle EXCEPT !.pc = "lock", !.op = "put",
                                                      !.key = key, !.bytes = bytes]]
    /\ started' = started + 1
    /\ UNCHANGED <<cache_vars, now, inner_lock, lin>>
    /\ ThreadFrame

\* `self.inner.lock().unwrap()` returns for thread t
Lock(t) ==
    /\ threads[t].pc = "lock"
    /\ try_lock(inner_lock, t)
    /\ inner_lock' = Some(t)
    /\ threads' = [threads EXCEPT ![t].pc = IF threads[t].op = "get" THEN "get_mut"
                                                                      ELSE "put_now"]
    /\ UNCHANGED <<cache_vars, now, lin, started>>
    /\ ThreadFrame

\* get: `self.lru_cache.get_mut(cache_key)`, and the miss branch
GetMut(t) ==
    /\ threads[t].pc = "get_mut"
    /\ IF lru_contains(lru_cache, threads[t].key)
       THEN /\ lru_cache' = lru_promote(lru_cache, threads[t].key)
            /\ threads' = [threads EXCEPT ![t].pc = "get_touch"]
            /\ UNCHANGED lin
       ELSE /\ threads' = [threads EXCEPT ![t].pc = "unlock", ![t].outcome = "miss",
                                          ![t].ret = None,
                                          ![t].lin_ret = get(LinCache, threads[t].key, now).ret]
            /\ lin' = LinOf(get(LinCache, threads[t].key, now).cache)
            /\ UNCHANGED lru_cache
    /\ UNCHANGED <<num_items, num_bytes, capacity, now, inner_lock, started>>
    /\ ThreadFrame

\* get: `*instant = Instant::now()` and the clone of the item
GetTouch(t) ==
    /\ threads[t].pc = "get_touch"
    /\ lru_cache' = lru_get_mut(lru_cache, threads[t].key, now)
    /\ threads' = [threads EXCEPT ![t].pc = "unlock", ![t].outcome = "hit",
                                  ![t].ret =
                                      IF lru_contains(lru_cache, threads[t].key)
                                      THEN Some(lru_cache[IndexOf(lru_cache, threads[t].key)].bytes)
                                      ELSE None,
                                  ![t].lin_ret = get(LinCache, threads[t].key, now).ret]
    /\ lin' = LinOf(get(LinCache, threads[t].key, now).cache)
    /\ UNCHANGED <<num_items, num_bytes, capacity, now, inner_lock, started>>
    /\ ThreadFrame

\* put: `let now = Instant::now()` and the check of the size of the value
PutNow(t) ==
    /\ threads[t].pc = "put_now"
    /\ threads' = [threads EXCEPT
                      ![t].instant = now,
                      ![t].pc = IF exceeds_capacity(capacity, Len(threads[t].bytes))
                                THEN "unlock" ELSE "put_pop",
                      ![t].outcome = IF exceeds_capacity(capacity, Len(threads[t].bytes))
                                     THEN "oversize" ELSE "none"]
    /\ lin' = LinOf(put(LinCache, threads[t].key, threads[t].bytes, now).cache)
    /\ UNCHANGED <<cache_vars, now, inner_lock, started>>
    /\ ThreadFrame

\* put: the pop of the previous entry of the key
PutPop(t) ==
    /\ threads[t].pc = "put_pop"
    /\ \E c \in {pop_previous(cache, threads[t].key)} :
          /\ Guarded(c)
          /\ threads' = [threads EXCEPT ![t].pc = "put_loop", ![t].iters = 0,
                                        ![t].resident = Len(c.lru_cache)]
    /\ UNCHANGED <<now, inner_lock, lin, started>>
    /\ ThreadFrame

\* put: the test of the `while` and one pass through its body
PutLoop(t) ==
    /\ threads[t].pc = "put_loop"
    /\ \E r \in {evict_step(cache, Len(threads[t].bytes), threads[t].instant)} :
          /\ Guarded(r.cache)
          /\ threads' = [threads EXCEPT
                            ![t].pc = CASE r.outcome = "fits" -> "put_insert"
                                        [] r.outcome = "popped" -> "put_loop"
                                        [] OTHER -> "unlock",
                            ![t].outcome = IF r.outcome \in {"guard", "logical_error"}
                                           THEN r.outcome ELSE "none",
                            ![t].iters = IF r.outcome = "popped" THEN @ + 1 ELSE @]
    /\ UNCHANGED <<now, inner_lock, lin, started>>
    /\ ThreadFrame

\* put: record_item and `self.lru_cache.put(key, (now, bytes))`
PutInsert(t) ==
    /\ threads[t].pc = "put_insert"
    /\ Guarded([record_item(cache, Len(threads[t].bytes)) EXCEPT
                    !.lru_cache = lru_put(@, threads[t].key, threads[t].instant,
                                          threads[t].bytes)])
    /\ threads' = [threads EXCEPT ![t].pc = "unlock", ![t].outcome = "stored"]
    /\ UNCHANGED <<now, inner_lock, lin, started>>
    /\ ThreadFrame

\* the guard is dropped and the call of thread t returns
Unlock(t) ==
    /\ threads[t].pc = "unlock"
    /\ inner_lock' = release(inner_lock, t, threads[t].outcome)
    /\ threads' = [threads EXCEPT ![t] = Idle]
    /\ UNCHANGED <<cache_vars, now, lin, started>>
    /\ ThreadFrame

\* the limit of the eviction guard passes, wherever the threads are
ThreadTick ==
    /\ now + DO_NO_EVICT_DURATION_LIMIT <= MaxNow
    /\ now' = now + DO_NO_EVICT_DURATION_LIMIT
    /\ UNCHANGED <<cache_vars, thread_vars>>
    /\ ThreadFrame

\* a step of thread t inside a call
ThreadStep(t) ==
    \/ GetMut(t)
    \/ GetTouch(t)
    \/ PutNow(t)
    \/ PutPop(t)
    \/ PutLoop(t)
    \/ PutInsert(t)
    \/ Unlock(t)

ThreadsNext ==
    \/ \E t \in ThreadIds, key \in ThreadKeys : CallGet(t, key)
    \/ \E t \in ThreadIds, key \in ThreadKeys, bytes \in ThreadValues : CallPut(t, key, bytes)
    \/ \E t \in ThreadIds : Lock(t)
    \/ \E t \in ThreadIds : ThreadStep(t)
    \/ ThreadTick

SpecThreads == ThreadsInit /\ [][ThreadsNext]_vars

\* the threads run and the mutex is fair: a thread inside a call takes its
\* next step, and a thread that waits for the mutex gets it when it is free
\* again and again
FairSpecThreads ==
    /\ SpecThreads
    /\ \A t \in ThreadIds : WF_vars(ThreadStep(t))
    /\ \A t \in ThreadIds : SF_vars(Lock(t))

----------------------------------------------------------------------------
(* Vocabulary of the properties *)

RECURSIVE SumBytes(_)
\* sum of the byte lengths of the values in the store
SumBytes(l) == IF Len(l) = 0 THEN 0 ELSE Len(l[1].bytes) + SumBytes(Tail(l))

\* the keys resident in the store
ResidentKeys(l) == {l[i].key : i \in 1..Len(l)}

\* what a lookup of key finds: Some(bytes) or None
ValueOf(l, key) == IF lru_contains(l, key) THEN Some(l[IndexOf(l, key)].bytes) ELSE None

\* number of entries the store holds for key
CountOf(l, key) == Cardinality({i \in 1..Len(l) : l[i].key = key})

\* this step is a call of op on the cache (the clock stands still during a
\* call; last_call' describes the call)
IsCall(op) == now' = now /\ last_call'.op = op

\* the entry was accessed less than the limit before instant
Young(e, instant) == instant - e.instant < DO_NO_EVICT_DURATION_LIMIT

\* bytes of the entries of other keys than key that the guard protects
RECURSIVE YoungBytes(_, _, _)
YoungBytes(l, key, instant) ==
    IF Len(l) = 0 THEN 0
    ELSE (IF l[1].key # key /\ Young(l[1], instant) THEN Len(l[1].bytes) ELSE 0)
         + YoungBytes(Tail(l), key, instant)

----------------------------------------------------------------------------
(* C1 *)

\* C1: in every state (after every get or put, also a put that was dropped
\* or aborted part-way) num_items is the number of entries of the store and
\* num_bytes is the sum of the byte lengths of the stored values.
AccountingInvariant ==
    /\ num_items = Len(lru_cache)
    /\ num_bytes = SumBytes(lru_cache)

\* a put was aborted by the guard after it removed something, and entries
\* are still resident
AccountingWitness ==
    /\ last_call.op = "put"
    /\ last_call.outcome = "guard"
    /\ ~lru_contains(lru_cache, last_call.key)
    /\ num_items = 1
    /\ num_bytes > 0

----------------------------------------------------------------------------
(* C2 *)

\* C2: a cache built with with_capacity_in_bytes(B) holds at most B bytes in
\* every state, in particular after every put that was stored.
CapacityBound ==
    capacity.kind = "InBytes" => num_bytes <= capacity.bytes

\* a stored put filled the cache to exactly its capacity with two entries
CapacityBoundWitness ==
    /\ capacity = InBytes(TestCapacity)
    /\ last_call.op = "put"
    /\ last_call.outcome = "stored"
    /\ num_bytes = TestCapacity
    /\ num_items = 2

----------------------------------------------------------------------------
(* C3 *)

\* C3: a put whose value is longer than the capacity changes nothing: the
\* store (keys, values, timestamps, recency order), num_items and num_bytes
\* are as before the call, so a resident key keeps its old value and a
\* non-resident key stays absent.
OversizedPutIsNoOp ==
    [][(IsCall("put") /\ exceeds_capacity(capacity, Len(last_call'.bytes)))
        => /\ UNCHANGED <<lru_cache, num_items, num_bytes>>
           /\ last_call'.outcome = "oversize"]_vars

\* an oversized put was made for a key that is resident, between other calls
OversizedPutWitness ==
    /\ capacity = InBytes(TestCapacity)
    /\ last_call.op = "put"
    /\ last_call.outcome = "oversize"
    /\ lru_contains(lru_cache, last_call.key)
    /\ num_items = 2

----------------------------------------------------------------------------
(* C4 *)

\* C4: a put that returns through the anti-thrashing guard leaves the store,
\* num_items and num_bytes exactly as they were before the call.
GuardAbortIsNoOp ==
    [][(IsCall("put") /\ last_call'.outcome = "guard")
        => UNCHANGED <<lru_cache, num_items, num_bytes>>]_vars

----------------------------------------------------------------------------
(* C5 *)

----------------------------------------------------------------------------
(* C6 *)

\* C6: in a bounded cache a put(k, v) with len(v) <= capacity is admitted,
\* by eviction where it does not fit: a get(k) right after it returns v.
AdmissionByEviction ==
    [][(IsCall("put") /\ ~exceeds_capacity(capacity, Len(last_call'.bytes)))
        => ValueOf(lru_cache', last_call'.key) = Some(last_call'.bytes)]_vars

----------------------------------------------------------------------------
(* C7 *)

\* C7: get, hit or miss, leaves num_items, num_bytes, the resident keys and
\* every stored value unchanged; a miss changes nothing at all, a hit only
\* moves the entry to the most recently used position with the timestamp of
\* the call, the entries of the other keys keeping their timestamps and
\* their order.
GetIsReadOnly ==
    [][IsCall("get")
        => /\ UNCHANGED <<num_items, num_bytes, capacity>>
           /\ ResidentKeys(lru_cache') = ResidentKeys(lru_cache)
           /\ \A key \in Keys : ValueOf(lru_cache', key) = ValueOf(lru_cache, key)
           /\ lru_pop(lru_cache', last_call'.key) = lru_pop(lru_cache, last_call'.key)
           /\ last_call'.outcome = "miss" => lru_cache' = lru_cache
           /\ last_call'.outcome = "hit"
                => /\ lru_cache'[Len(lru_cache')].key = last_call'.key
                   /\ lru_cache'[Len(lru_cache')].instant = now]_vars

\* a get hit the least recently used of two entries some time after it was
\* stored: the entry is now the most recently used, with a later timestamp
GetWitness ==
    /\ last_call.op = "get"
    /\ last_call.outcome = "hit"
    /\ num_items >= 2
    /\ lru_cache[Len(lru_cache)].key = last_call.key
    /\ lru_cache[Len(lru_cache)].instant > lru_cache[1].instant

----------------------------------------------------------------------------
(* C8 *)

\* the store holds exactly one entry for key, and it holds bytes
HoldsOnce(l, key, bytes) == CountOf(l, key) = 1 /\ ValueOf(l, key) = Some(bytes)

\* C8 as stated: after any put(k, v), making the same put again leaves
\* exactly one entry for k holding v and num_items / num_bytes as they are
\* after the first put.
PutIdempotent ==
    last_call.op = "put"
        => LET again == put(cache, last_call.key, last_call.bytes, now).cache
           IN  /\ HoldsOnce(again.lru_cache, last_call.key, last_call.bytes)
               /\ again.num_items = num_items
               /\ again.num_bytes = num_bytes

\* C8 amended: after a put(k, v) that was stored, making the same put again
\* (at once or later, with no other call in between) is stored too and
\* leaves exactly one entry for k holding v, the values of the other keys
\* and num_items / num_bytes as they are after the first put; and the state
\* such a second put leaves has exactly one entry for k holding v.
PutIdempotentWhenStored ==
    /\ (last_call.op = "put" /\ last_call.outcome = "stored")
        => LET again == put(cache, last_call.key, last_call.bytes, now)
           IN  /\ again.outcome = "stored"
               /\ HoldsOnce(again.cache.lru_cache, last_call.key, last_call.bytes)
               /\ HoldsOnce(lru_cache, last_call.key, last_call.bytes)
               /\ again.cache.num_items = num_items
               /\ again.cache.num_bytes = num_bytes
               /\ \A key \in Keys :
                      ValueOf(again.cache.lru_cache, key) = ValueOf(lru_cache, key)
    /\ last_call.again
        => /\ last_call.outcome = "stored"
           /\ HoldsOnce(lru_cache, last_call.key, last_call.bytes)

\* the same put was made twice in a row, the second some time after the
\* first, with another entry resident
PutTwiceWitness ==
    /\ last_call.op = "put"
    /\ last_call.again
    /\ last_call.outcome = "stored"
    /\ num_items = 2
    /\ now > 0
    /\ lru_cache[Len(lru_cache)].instant = now

----------------------------------------------------------------------------
(* C9 *)

\* C9 as stated: a cache of capacity 0 stays empty whatever is put, values
\* of length 0 included, and every get returns nothing.
ZeroCapacityAcceptsNothing ==
    capacity = InBytes(0)
        => /\ Len(lru_cache) = 0
           /\ num_items = 0
           /\ last_call.op = "get" => last_call.ret = None

\* C9 amended: a cache of capacity 0 accepts no value of length 1 or more:
\* every such put is dropped as oversized, num_bytes stays 0, every resident
\* value is empty and get never returns a non-empty value; a put of a value
\* of length 0 is stored.
ZeroCapacityAcceptsNoBytes ==
    capacity = InBytes(0)
        => /\ num_bytes = 0
           /\ \A i \in 1..Len(lru_cache) : lru_cache[i].bytes = <<>>
           /\ last_call.op = "get" => last_call.ret \in {None, Some(<<>>)}
           /\ (last_call.op = "put" /\ Len(last_call.bytes) > 0)
                => last_call.outcome = "oversize"
           /\ (last_call.op = "put" /\ Len(last_call.bytes) = 0)
                => /\ last_call.outcome = "stored"
                   /\ ValueOf(lru_cache, last_call.key) = Some(<<>>)

\* in a cache of capacity 0 that holds an empty value, a put of a non-empty
\* value was dropped
ZeroCapacityWitness ==
    /\ capacity = InBytes(0)
    /\ num_items > 0
    /\ last_call.op = "put"
    /\ Len(last_call.bytes) > 0
    /\ last_call.outcome = "oversize"

----------------------------------------------------------------------------
(* C10 *)

\* C10: a cache built with with_infinite_capacity never evicts: every put
\* is stored as the most recently used entry and leaves the entries of the
\* other keys (values, timestamps, order) as they were; a get returns the
\* value the store holds for the key, which is that of the latest put, and
\* changes no value.
UnlimitedNeverEvicts ==
    [][capacity = Unlimited
        => /\ IsCall("put")
                => /\ last_call'.outcome = "stored"
                   /\ lru_cache'[Len(lru_cache')]
                        = Entry(last_call'.key, now, last_call'.bytes)
                   /\ lru_pop(lru_cache', last_call'.key)
                        = lru_pop(lru_cache, last_call'.key)
                   /\ CountOf(lru_cache', last_call'.key) = 1
           /\ IsCall("get")
                => /\ last_call'.ret = ValueOf(lru_cache, last_call'.key)
                   /\ \A key \in Keys :
                          ValueOf(lru_cache', key) = ValueOf(lru_cache, key)]_vars

\* an unlimited cache holds three entries of more bytes than the bounded
\* caches take, and a get just returned the longest value
UnlimitedWitness ==
    /\ capacity = Unlimited
    /\ num_items = 3
    /\ num_bytes > 2 * TestCapacity
    /\ last_call.op = "get"
    /\ last_call.ret = Some(<<107, 108, 109, 110, 111, 112>>)

----------------------------------------------------------------------------
(* C16 *)

----------------------------------------------------------------------------
(* C17 *)

\* C17: a put(k, v2) of a value that passes the oversize check, made while
\* k is resident, takes the old entry out and accounts it out whatever its
\* age: after the call k is resident exactly once, with v2 and the
\* timestamp of the call, or k is absent; no key has two entries and the
\* counters match the store.
ReplacementLeavesNoStaleValue ==
    [][(/\ IsCall("put")
        /\ ~exceeds_capacity(capacity, Len(last_call'.bytes))
        /\ lru_contains(lru_cache, last_call'.key))
        => /\ last_call'.replaced
           /\ \A key \in Keys : CountOf(lru_cache', key) <= 1
           /\ last_call'.outcome = "stored"
                => lru_peek(lru_cache', last_call'.key)
                      = Some(Entry(last_call'.key, now, last_call'.bytes))
           /\ last_call'.outcome # "stored"
                => ~lru_contains(lru_cache', last_call'.key)
           /\ num_items' = Len(lru_cache')
           /\ num_bytes' = SumBytes(lru_cache')]_vars

\* a put for a resident key was dropped by the guard: the key is gone, the
\* entry of another key stays
ReplacementWitness ==
    /\ last_call.op = "put"
    /\ last_call.replaced
    /\ last_call.outcome = "guard"
    /\ ~lru_contains(lru_cache, last_call.key)
    /\ num_items = 1

----------------------------------------------------------------------------
(* C18 *)

\* bytes of the entries of l after its first n
BytesAfter(l, n) == SumBytes(SubSeq(l, n + 1, Len(l)))

\* whether cap takes n bytes
FitsIn(cap, n) == cap.kind = "Unlimited" \/ n <= cap.bytes

\* the length of the shortest prefix of l whose removal makes room for len
\* bytes (Len(l) + 1 when not even the empty store has room)
MinPrefix(l, cap, len) ==
    IF \E n \in 0..Len(l) : FitsIn(cap, BytesAfter(l, n) + len)
    THEN CHOOSE n \in 0..Len(l) :
            /\ FitsIn(cap, BytesAfter(l, n) + len)
            /\ \A m \in 0..(n - 1) : ~FitsIn(cap, BytesAfter(l, m) + len)
    ELSE Len(l) + 1

\* C18: when put(k, v) has len(v) <= capacity and every entry of the
\* shortest least-recently-used prefix that has to go is at least 60 seconds
\* old, the put is stored; it removes (besides the previous entry of k)
\* exactly that prefix, the other entries keep value, timestamp and order,
\* and the new entry is the most recently used, with the timestamp of the
\* call.
MinimalEviction ==
    [][(/\ IsCall("put")
        /\ ~exceeds_capacity(capacity, Len(last_call'.bytes))
        /\ LET rest == lru_pop(lru_cache, last_call'.key)
           IN  \A i \in 1..MinPrefix(rest, capacity, Len(last_call'.bytes)) :
                   ~Young(rest[i], now))
        => LET rest == lru_pop(lru_cache, last_call'.key)
               n == MinPrefix(rest, capacity, Len(last_call'.bytes))
           IN  /\ last_call'.outcome = "stored"
               /\ last_call'.evicted = n
               /\ lru_cache' = Append(SubSeq(rest, n + 1, Len(rest)),
                                      Entry(last_call'.key, now, last_call'.bytes))]_vars

\* a stored put evicted the older of two entries and kept the younger one
MinimalEvictionWitness ==
    /\ last_call.op = "put"
    /\ last_call.outcome = "stored"
    /\ last_call.evicted = 1
    /\ num_items = 2
    /\ lru_cache[1].key # last_call.key
    /\ lru_cache[1].instant < now

----------------------------------------------------------------------------
(* C19 *)

\* C19: no put ever takes the "logical error" return: the eviction loop
\* never finds the store empty while the new value still exceeds the
\* capacity; and num_bytes is 0 whenever the store is empty.
LogicalErrorUnreachable ==
    /\ last_call.outcome # "logical_error"
    /\ Len(lru_cache) = 0 => num_bytes = 0

\* a put evicted every entry of the store, then fitted and was stored
LogicalErrorWitness ==
    /\ capacity = InBytes(TestCapacity)
    /\ last_call.op = "put"
    /\ last_call.outcome = "stored"
    /\ last_call.evicted = 2
    /\ ~last_call.replaced
    /\ num_items = 1
    /\ num_bytes = TestCapacity

----------------------------------------------------------------------------
(* C11 *)

\* the caches that have not been dropped
LiveCaches == {i \in CacheIds : caches[i].live}

RECURSIVE SumOver(_, _)
\* sum of f[i] over the i of S
SumOver(f, S) ==
    IF S = {}
    THEN 0
    ELSE LET i == CHOOSE j \in S : TRUE
         IN  f[i] + SumOver(f, S \ {i})

\* C11: with two caches on one sink, after every operation the sink's
\* in_cache_count and in_cache_num_bytes are the sums of num_items and
\* num_bytes over the caches that are alive; a dropped cache, whatever it
\* held at the end, contributes nothing.
SinkAgreement ==
    /\ metrics.in_cache_count
          = SumOver([i \in CacheIds |-> caches[i].num_items], LiveCaches)
    /\ metrics.in_cache_num_bytes
          = SumOver([i \in CacheIds |-> caches[i].num_bytes], LiveCaches)
    /\ LiveCaches = {} => (metrics.in_cache_count = 0 /\ metrics.in_cache_num_bytes = 0)

\* a cache that held entries was dropped while the other one holds entries
SinkAgreementWitness ==
    /\ last_call.op = "drop"
    /\ ~caches[last_call.cache].live
    /\ caches[last_call.cache].num_items >= 1
    /\ caches[last_call.cache].num_bytes >= 2
    /\ \E j \in LiveCaches : caches[j].num_items >= 1
    /\ metrics.in_cache_count >= 1

----------------------------------------------------------------------------
(* C13 *)

\* C13: get(k) returns the value of k when k is resident, which is the
\* value of the latest put for k that was stored, and nothing when k is not
\* resident; a hit adds 1 to hits_num_items and the length of the value to
\* hits_num_bytes and leaves misses_num_items alone; a miss adds 1 to
\* misses_num_items and leaves the hit counters alone; put changes none of
\* the three.
GetResultAndHitMissMetrics ==
    [][(calls' = calls + 1)
        => LET i == last_call'.cache
               key == last_call'.key
               ret == last_call'.ret
           IN  /\ last_call'.op = "get"
                    => /\ ret = ValueOf(caches[i].lru_cache, key)
                       /\ ret # None => ret = retained[i][key]
                       /\ ret # None
                            => /\ metrics'.hits_num_items = metrics.hits_num_items + 1
                               /\ metrics'.hits_num_bytes
                                     = metrics.hits_num_bytes + Len(ret[1])
                               /\ metrics'.misses_num_items = metrics.misses_num_items
                       /\ ret = None
                            => /\ metrics'.misses_num_items = metrics.misses_num_items + 1
                               /\ metrics'.hits_num_items = metrics.hits_num_items
                               /\ metrics'.hits_num_bytes = metrics.hits_num_bytes
               /\ last_call'.op = "put"
                    => /\ metrics'.hits_num_items = metrics.hits_num_items
                       /\ metrics'.hits_num_bytes = metrics.hits_num_bytes
                       /\ metrics'.misses_num_items = metrics.misses_num_items]_vars

\* after a miss, a get returned the five bytes of "fghij"
GetResultWitness ==
    /\ last_call.op = "get"
    /\ last_call.ret = Some(<<102, 103, 104, 105, 106>>)
    /\ metrics.hits_num_items = 1
    /\ metrics.hits_num_bytes = 5
    /\ metrics.misses_num_items = 1

----------------------------------------------------------------------------
(* C14 *)

RECURSIVE LastRegistered(_, _)
\* the factory of the last register call for protocol in h, if there is one
LastRegistered(h, protocol) ==
    IF h = <<>>
    THEN None
    ELSE IF h[Len(h)].protocol = protocol
    THEN Some(h[Len(h)].factory)
    ELSE LastRegistered(SubSeq(h, 1, Len(h) - 1), protocol)

\* C14: resolve(uri) returns ProtocolUnsupported when no register call was
\* made for the protocol of uri; otherwise it returns what the factory of
\* the last register call for that protocol returns for uri: the stub
\* returns ProtocolUnsupported with its message, another factory returns its
\* metastore or its own error.
ResolverDispatch ==
    resolved # None
        => LET call == resolved[1]
               last == LastRegistered(registrations, call.uri.protocol)
           IN  /\ last = None
                    => call.result = Err(ProtocolUnsupported(call.uri.protocol))
               /\ (last # None /\ last[1].kind = "UnsuportedMetastore")
                    => call.result = Err(ProtocolUnsupported(last[1].message))
               /\ (last # None /\ last[1].kind # "UnsuportedMetastore")
                    => /\ call.outcome = "opened"
                         => call.result = Ok([metastore |-> last[1].kind, uri |-> call.uri])
                       /\ call.outcome = "failed"
                         => (~call.result.ok /\ call.result.error.kind # "ProtocolUnsupported")

\* a protocol was registered with the stub, then with a factory, and
\* resolve returned the metastore of the factory
ResolverDispatchWitness ==
    /\ resolved # None
    /\ resolved[1].result.ok
    /\ \E i, j \in 1..Len(registrations) :
          /\ i < j
          /\ registrations[i].protocol = resolved[1].uri.protocol
          /\ registrations[j].protocol = resolved[1].uri.protocol
          /\ registrations[i].factory.kind = "UnsuportedMetastore"
          /\ registrations[j].factory.kind = "FileBackedMetastoreFactory"

----------------------------------------------------------------------------
(* C15 *)

RECURSIVE FormatNat(_)
\* the decimal digits of a natural number
FormatNat(n) ==
    IF n < 10 THEN <<Digits[n + 1]>> ELSE Append(FormatNat(n \div 10), Digits[(n % 10) + 1])

\* the decimal representation of an integer
Format(n) == IF n < 0 THEN <<"-">> \o FormatNat(-n) ELSE FormatNat(n)

\* str is a decimal number: digits 1-9 after an optional minus sign
IsDecimal(str) ==
    /\ str # <<>>
    /\ str # <<"-">>
    /\ \A i \in 1..Len(str) :
          \/ str[i] \in {"1", "2", "3", "4", "5", "6", "7", "8", "9"}
          \/ (i = 1 /\ str[i] = "-")

\* C15: get_from_env returns the number the variable spells when the
\* variable is set to a decimal number at the time of the call, and its
\* default when the variable is unset, is not unicode or is not a number.
EnvContract ==
    returned # None
        => LET call == returned[1]
           IN  IF call.seen # None /\ call.seen[1].unicode /\ IsDecimal(call.seen[1].str)
               THEN Format(call.value) = call.seen[1].str
               ELSE call.value = call.default_value

\* get_from_env returned the default for "1i" and the variable has been set
\* to "15" since
EnvContractWitness ==
    /\ returned # None
    /\ returned[1].seen = Some(Unicode(<<"1", "i">>))
    /\ returned[1].value = 10
    /\ env = Some(Unicode(<<"1", "5">>))

----------------------------------------------------------------------------
(* C12 *)

\* the threads that are between `lock()` and the drop of the guard
InCritical == {t \in ThreadIds : threads[t].pc \in Critical}

\* C12: with threads calling get and put on one cache, at most one thread
\* is inside the guarded state and it holds the mutex; a thread that enters
\* the guarded state, and anyone while the mutex is free, finds the state
\* that the calls made so far leave when run one after the other, with
\* counters that match the store; and every get returns what it returns in
\* that sequential run.
Linearizable ==
    /\ Cardinality(InCritical) <= 1
    /\ \A t \in InCritical : inner_lock = Some(t)
    /\ (inner_lock = None \/ \E t \in ThreadIds : threads[t].pc \in {"get_mut", "put_now"})
          => /\ LinOf(cache) = lin
             /\ num_items = Len(lru_cache)
             /\ num_bytes = SumBytes(lru_cache)
    /\ \A t \in ThreadIds :
          threads[t].pc = "unlock"
             => /\ threads[t].ret = threads[t].lin_ret
                /\ LinOf(cache) = lin

\* a thread waits for the mutex while the other is in the middle of a put
\* that has evicted an entry and not yet inserted its own
LinearizableWitness ==
    \E t, u \in ThreadIds :
        /\ threads[t].pc = "put_insert"
        /\ threads[t].iters >= 1
        /\ threads[u].pc = "lock"
        /\ LinOf(cache) # lin

----------------------------------------------------------------------------
(* C20 *)

\* the eviction loop pops one entry per pass and makes no more passes than
\* there were entries when it started
LoopBound ==
    \A t \in ThreadIds :
        /\ threads[t].iters <= threads[t].resident
        /\ threads[t].pc = "put_loop"
              => threads[t].iters + Len(lru_cache) = threads[t].resident

\* a thread holds the mutex only inside a call
LockReleased ==
    \A t \in ThreadIds : inner_lock = Some(t) => threads[t].pc \in Critical

\* when a call is under way, some thread can take a step
NoDeadlock ==
    (\E t \in ThreadIds : threads[t].pc # "idle")
        => \E t \in ThreadIds : ENABLED (Lock(t) \/ ThreadStep(t))

\* C20: the eviction loop makes at most as many passes as there are
\* resident entries when it starts, the mutex is released on every return
\* path, no deadlock is reachable, and with a fair mutex every call that was
\* started returns.
EveryCallCompletes ==
    /\ [](LoopBound /\ LockReleased /\ NoDeadlock)
    /\ \A t \in ThreadIds : (threads[t].pc # "idle") ~> (threads[t].pc = "idle")

\* a thread waits for the mutex while the loop of the other has popped
\* every entry that was resident when it started
EveryCallCompletesWitness ==
    \E t, u \in ThreadIds :
        /\ threads[t].pc = "put_loop"
        /\ threads[t].resident >= 1
        /\ threads[t].iters = threads[t].resident
        /\ threads[u].pc = "lock"

====
